---- MODULE Spec2Model ----
(***************************************************************************)
(* EdgeRouter integration: the client registry built by                    *)
(* EdgeRouterAPI.get_all_clients, the coordinator that caches it, the      *)
(* device trackers that derive presence from it and the count sensors.     *)
(*                                                                         *)
(* Time is the reading of datetime.now(), an integer number of time units. *)
(* A fetch cycle (two remote commands, merge, coordinator update and the   *)
(* listeners it calls) is one step and reads the clock once.               *)
(***************************************************************************)
EXTENDS Integers, Sequences, FiniteSets, TLC

\* ------------------------------------------------------------------------
\* Bounds and input alphabets
\* ------------------------------------------------------------------------
MaxTime == 6
MaxRows == 2
MaxCalls == 3
MaxLines == 3

MACs == {"00:11:22:33:44:55", "66:77:88:99:aa:bb"}
IPs == {"192.168.1.50", "192.168.1.51"}
Interfaces == {"eth0", ""}
Hostnames == {"None", "myhost"}
GraceWindows == {0, 2, 6}

DEFAULT_CONSIDER_HOME == 180

\* None for a datetime
NoTime == -1

\* None for an optional string field
None == "None"

VARIABLES
    now,                \* the clock, datetime.now()
    consider_home,      \* the configured grace window of the entry
    refreshed,          \* the coordinator's first refresh has run
    arp_out,            \* outcome of "show arp" in the last cycle
    dhcp_out,           \* outcome of "show dhcp leases" in the last cycle
    attempted,          \* the commands get_all_clients issued in the last cycle
    last_update_success,\* coordinator.last_update_success
    data,               \* coordinator.data, the cached registry
    tracked_macs,       \* tracked_macs of the device tracker platform
    tracker_last_seen,  \* _last_seen of each tracker entity
    reported,           \* value of is_connected at its latest evaluation, per tracker
    arp_seen_at,        \* cycle timestamp of the latest snapshot with in_arp, per MAC
    \* the remote command channel, the API call using it and the config flow
    chan_pc,            \* position inside _exec_command
    open_sessions,      \* SSH sessions opened and not yet closed
    connected,          \* client.connect of the current invocation returned
    session_cmds,       \* exec_command calls made on the current session
    closed_cmds,        \* exec_command counts of the connected sessions closed so far
    chan_exc,           \* exception raised inside the try block of the last invocation
    chan_stderr,        \* the last invocation read a nonempty standard error
    chan_ret,           \* what the last invocation returned or raised
    api_op,             \* the EdgeRouterAPI method in progress
    api_cmds,           \* commands the method still has to issue
    api_ret,            \* what the last finished method returned or raised
    calls,              \* number of API methods started
    flow_pc,            \* position inside async_step_user
    flow_test_exc,      \* exception met by the connection test of the flow
    flow_error,         \* errors["base"] of the form shown by the flow
    \* one get_all_clients call, pass by pass
    fetch_pc,           \* position inside the running get_all_clients call
    fetch_clients,      \* its local mapping clients
    fetch_now,          \* its local now
    read_pc,            \* fetch_pc at the latest evaluation of is_connected
    \* the parsers of the two command outputs
    parse_cmd,          \* the command whose output was parsed last
    output,             \* that output, line by line, each line as its split()
    parsed,             \* the rows the parser returned, each with its line number
    \* setting up the config entry and the device tracker platform
    setup_pc,           \* position inside the two async_setup_entry functions
    hass_data,          \* keys of hass.data[DOMAIN][entry.entry_id]
    setup_exc,          \* exception raised by the tracker platform setup
    setup_registered,   \* MACs handed to async_add_entities by the platform setup
    \* the entity platform
    entity_count,       \* tracker entities created so far, per MAC
    appeared            \* MACs that some registry handed to the listeners held

core_vars == <<now, consider_home, refreshed, arp_out, dhcp_out, attempted,
               last_update_success, data, tracked_macs, tracker_last_seen,
               reported, arp_seen_at, entity_count, appeared>>

chan_vars == <<chan_pc, open_sessions, connected, session_cmds, closed_cmds,
               chan_exc, chan_stderr, chan_ret, api_op, api_cmds, api_ret,
               calls, flow_pc, flow_test_exc, flow_error>>

fetch_vars == <<fetch_pc, fetch_clients, fetch_now, read_pc>>

parse_vars == <<parse_cmd, output, parsed>>

setup_vars == <<setup_pc, hass_data, setup_exc, setup_registered>>

aux_vars == <<parse_vars, setup_vars>>

vars == <<core_vars, chan_vars, fetch_vars, aux_vars>>

\* ------------------------------------------------------------------------
\* Fetch outcomes: what get_arp_table / get_dhcp_leases return or raise
\* ------------------------------------------------------------------------
Statuses == {"ok", "EdgeRouterConnectionError", "EdgeRouterAuthenticationError"}

Failed(out) == out.status # "ok"

ExpiresOf(ip) == IF ip = "192.168.1.50" THEN "2024/01/01 12:00:00" ELSE None

ArpEntries == [ip : IPs, mac : MACs, interface : Interfaces]

DhcpLeases ==
    {[ip |-> i, mac |-> m, hostname |-> h, expires |-> ExpiresOf(i)] :
        i \in IPs, m \in MACs, h \in Hostnames}

SeqsUpTo(S, n) == UNION {[1..k -> S] : k \in 0..n}

Outcomes(rowLists) ==
    {[status |-> "ok", rows |-> r] : r \in rowLists}
    \cup {[status |-> s, rows |-> <<>>] : s \in Statuses \ {"ok"}}

\* every row list of up to MaxRows rows, MACs may repeat
ArpOutcomes == Outcomes(SeqsUpTo(ArpEntries, MaxRows))
DhcpOutcomes == Outcomes(SeqsUpTo(DhcpLeases, MaxRows))

\* one fixed row per MAC, in a fixed order, for each set of MACs
IpOf(m) == IF m = "00:11:22:33:44:55" THEN "192.168.1.50" ELSE "192.168.1.51"

RECURSIVE ListOf(_)
ListOf(S) ==
    IF S = {} THEN <<>>
    ELSE LET m == CHOOSE x \in S : TRUE IN <<m>> \o ListOf(S \ {m})

ArpTableOf(S) ==
    LET l == ListOf(S)
    IN [i \in 1..Len(l) |-> [ip |-> IpOf(l[i]), mac |-> l[i], interface |-> "eth0"]]

DhcpTableOf(S) ==
    LET l == ListOf(S)
    IN [i \in 1..Len(l) |->
          [ip |-> IpOf(l[i]), mac |-> l[i], hostname |-> "myhost",
           expires |-> ExpiresOf(IpOf(l[i]))]]

PolledOutcomes(tables) ==
    {[status |-> "ok", rows |-> r] : r \in tables}
    \cup {[status |-> "EdgeRouterConnectionError", rows |-> <<>>]}

ArpOutcomesPolled == PolledOutcomes({ArpTableOf(S) : S \in SUBSET MACs})
DhcpOutcomesPolled == PolledOutcomes({DhcpTableOf(S) : S \in SUBSET MACs})

MacsOf(rows) == {rows[i].mac : i \in 1..Len(rows)}

\* ------------------------------------------------------------------------
\* ClientInfo and the merge of get_all_clients
\* ------------------------------------------------------------------------
\* ClientInfo(mac=mac): every optional field None, both flags False,
\* last_seen from default_factory=datetime.now
ClientInfo(mac, t) ==
    [mac |-> mac, ip |-> None, hostname |-> None, interface |-> None,
     lease_expires |-> None, in_arp |-> FALSE, has_dhcp_lease |-> FALSE,
     last_seen |-> t]

EmptyRegistry == [m \in {} |-> ClientInfo(m, NoTime)]

Put(clients, mac, rec) ==
    [m \in (DOMAIN clients) \cup {mac} |-> IF m = mac THEN rec ELSE clients[m]]

\* a variant of the ARP pass that never sets in_arp
RECURSIVE ArpLoop_no_flag(_, _, _)
ArpLoop_no_flag(clients, entries, t) ==
    IF entries = <<>> THEN clients
    ELSE LET entry == Head(entries)
             mac == entry.mac
             c0 == IF mac \in DOMAIN clients THEN clients[mac] ELSE ClientInfo(mac, t)
             c1 == [c0 EXCEPT !.ip = entry.ip, !.interface = entry.interface,
                              !.last_seen = t]
         IN ArpLoop_no_flag(Put(clients, mac, c1), Tail(entries), t)

\* the ARP pass: for entry in arp_entries
RECURSIVE ArpLoop(_, _, _)
ArpLoop(clients, entries, t) ==
    IF entries = <<>> THEN clients
    ELSE LET entry == Head(entries)
             mac == entry.mac
             c0 == IF mac \in DOMAIN clients THEN clients[mac] ELSE ClientInfo(mac, t)
             c1 == [c0 EXCEPT !.ip = entry.ip, !.interface = entry.interface,
                              !.in_arp = TRUE, !.last_seen = t]
         IN ArpLoop(Put(clients, mac, c1), Tail(entries), t)

\* a variant of the DHCP pass that sets has_dhcp_lease only on a new record
RECURSIVE DhcpLoop_flag_new_only(_, _, _)
DhcpLoop_flag_new_only(clients, leases, t) ==
    IF leases = <<>> THEN clients
    ELSE LET lease == Head(leases)
             mac == lease.mac
             c0 == IF mac \in DOMAIN clients THEN clients[mac]
                   ELSE [ClientInfo(mac, t) EXCEPT !.ip = lease.ip,
                                                   !.has_dhcp_lease = TRUE]
             c1 == [c0 EXCEPT !.hostname = lease.hostname,
                              !.lease_expires = lease.expires,
                              !.last_seen = IF c0.in_arp THEN t ELSE c0.last_seen]
         IN DhcpLoop_flag_new_only(Put(clients, mac, c1), Tail(leases), t)

\* a variant of the DHCP pass that always takes the IP of the lease row
RECURSIVE DhcpLoop_overwrite_ip(_, _, _)
DhcpLoop_overwrite_ip(clients, leases, t) ==
    IF leases = <<>> THEN clients
    ELSE LET lease == Head(leases)
             mac == lease.mac
             c0 == IF mac \in DOMAIN clients THEN clients[mac] ELSE ClientInfo(mac, t)
             c1 == [c0 EXCEPT !.ip = lease.ip,
                              !.hostname = lease.hostname,
                              !.lease_expires = lease.expires,
                              !.has_dhcp_lease = TRUE,
                              !.last_seen = IF c0.in_arp THEN t ELSE c0.last_seen]
         IN DhcpLoop_overwrite_ip(Put(clients, mac, c1), Tail(leases), t)

\* the DHCP pass: for lease in dhcp_leases
RECURSIVE DhcpLoop(_, _, _)
DhcpLoop(clients, leases, t) ==
    IF leases = <<>> THEN clients
    ELSE LET lease == Head(leases)
             mac == lease.mac
             c0 == IF mac \in DOMAIN clients THEN clients[mac]
                   ELSE [ClientInfo(mac, t) EXCEPT !.ip = lease.ip]
             c1 == [c0 EXCEPT !.hostname = lease.hostname,
                              !.lease_expires = lease.expires,
                              !.has_dhcp_lease = TRUE,
                              !.last_seen = IF c0.in_arp THEN t ELSE c0.last_seen]
         IN DhcpLoop(Put(clients, mac, c1), Tail(leases), t)

\* a variant in which a failed ARP fetch escapes and ends the call
get_all_clients_abort(arp, dhcp, t) ==
    IF Failed(arp)
    THEN [raises |-> arp.status, value |-> EmptyRegistry, attempted |-> <<"show arp">>]
    ELSE [raises |-> None,
          value |-> LET afterArp == ArpLoop(EmptyRegistry, arp.rows, t)
                    IN IF Failed(dhcp) THEN afterArp ELSE DhcpLoop(afterArp, dhcp.rows, t),
          attempted |-> <<"show arp", "show dhcp leases">>]

\* both try blocks catch Exception, so the call never raises and always
\* issues both commands
get_all_clients(arp, dhcp, t) ==
    LET afterArp == IF Failed(arp) THEN EmptyRegistry
                    ELSE ArpLoop(EmptyRegistry, arp.rows, t)
        afterDhcp == IF Failed(dhcp) THEN afterArp
                     ELSE DhcpLoop(afterArp, dhcp.rows, t)
    IN [raises |-> None, value |-> afterDhcp,
        attempted |-> <<"show arp", "show dhcp leases">>]

\* async_update_data: EdgeRouterConnectionError (and its subclass) becomes
\* UpdateFailed
async_update_data(call) ==
    [update_failed |-> call.raises \in {"EdgeRouterConnectionError",
                                        "EdgeRouterAuthenticationError"},
     value |-> call.value]

\* ------------------------------------------------------------------------
\* Device tracker
\* ------------------------------------------------------------------------
\* is_connected evaluated at time t: the returned value and _last_seen after it
is_connected_le(d, mac, ls, G, t) ==
    IF mac \in DOMAIN d /\ d[mac].in_arp
    THEN [value |-> TRUE, last_seen |-> d[mac].last_seen]
    ELSE IF ls # NoTime /\ G > 0
         THEN [value |-> t - ls <= G, last_seen |-> ls]
         ELSE [value |-> FALSE, last_seen |-> ls]

\* a variant whose window never runs out
is_connected_no_expiry(d, mac, ls, G, t) ==
    IF mac \in DOMAIN d /\ d[mac].in_arp
    THEN [value |-> TRUE, last_seen |-> d[mac].last_seen]
    ELSE IF ls # NoTime /\ G > 0
         THEN [value |-> TRUE, last_seen |-> ls]
         ELSE [value |-> FALSE, last_seen |-> ls]

is_connected(d, mac, ls, G, t) ==
    IF mac \in DOMAIN d /\ d[mac].in_arp
    THEN [value |-> TRUE, last_seen |-> d[mac].last_seen]
    ELSE IF ls # NoTime /\ G > 0
         THEN [value |-> t - ls < G, last_seen |-> ls]
         ELSE [value |-> FALSE, last_seen |-> ls]

\* a variant that takes last_seen from any record of the client
handle_coordinator_update_any(d, mac, ls) ==
    IF mac \in DOMAIN d THEN d[mac].last_seen ELSE ls

\* _last_seen after _handle_coordinator_update
handle_coordinator_update(d, mac, ls) ==
    IF mac \in DOMAIN d /\ d[mac].in_arp THEN d[mac].last_seen ELSE ls

StateOf(b) == IF b THEN "home" ELSE "not_home"

\* the connection_type attribute of extra_state_attributes, None when not set
connection_type_no_static(d, mac) ==
    IF mac \notin DOMAIN d THEN None
    ELSE IF d[mac].in_arp /\ d[mac].has_dhcp_lease THEN "dhcp"
    ELSE IF d[mac].has_dhcp_lease THEN "dhcp_inactive"
    ELSE None

connection_type(d, mac) ==
    IF mac \notin DOMAIN d THEN None
    ELSE IF d[mac].in_arp /\ d[mac].has_dhcp_lease THEN "dhcp"
    ELSE IF d[mac].in_arp THEN "static"
    ELSE IF d[mac].has_dhcp_lease THEN "dhcp_inactive"
    ELSE None

\* ------------------------------------------------------------------------
\* Sensors
\* ------------------------------------------------------------------------
RECURSIVE SumOver(_, _, _)
SumOver(d, S, flag) ==
    IF S = {} THEN 0
    ELSE LET m == CHOOSE x \in S : TRUE
         IN (IF d[m][flag] THEN 1 ELSE 0) + SumOver(d, S \ {m}, flag)

connected_clients_counts_all(d) == Cardinality(DOMAIN d)

connected_clients_native_value(d) ==
    IF DOMAIN d # {} THEN SumOver(d, DOMAIN d, "in_arp") ELSE 0

dhcp_leases_native_value(d) ==
    IF DOMAIN d # {} THEN SumOver(d, DOMAIN d, "has_dhcp_lease") ELSE 0

\* ------------------------------------------------------------------------
\* Remote command channel: EdgeRouterAPI._exec_command
\* ------------------------------------------------------------------------
\* what client.connect can do
ConnectOutcomes == {"ok", "AuthenticationException", "SSHException",
                    "TimeoutError", "OSError"}

\* what exec_command and the reads of stdout / stderr can do
ExecOutcomes == {"ok", "SSHException", "TimeoutError"}
ReadOutcomes == {"ok", "stderr", "TimeoutError"}

\* connect got as far as an SSH transport, which stays open until close()
OpensSession(outcome) ==
    outcome \in {"ok", "AuthenticationException", "SSHException"}

\* a variant with the SSHException handler ahead of the AuthenticationException one
exec_command_exit_ssh_first(exc) ==
    IF exc = None THEN "output"
    ELSE "EdgeRouterConnectionError"

\* the except clauses of _exec_command, in their order: what the invocation
\* returns ("output") or raises
exec_command_exit(exc) ==
    IF exc = None THEN "output"
    ELSE IF exc = "AuthenticationException" THEN "EdgeRouterAuthenticationError"
    ELSE IF exc = "SSHException" THEN "EdgeRouterConnectionError"
    ELSE IF exc = "TimeoutError" THEN "EdgeRouterConnectionError"
    ELSE "EdgeRouterConnectionError"

\* a variant that closes the client only after a successful command
sessions_after_close_on_success(n, exc) == IF exc = None THEN 0 ELSE n

\* finally: client.close(), whatever happened in the try block
sessions_after_close(n, exc) == 0

\* isinstance(err, EdgeRouterConnectionError): the authentication error is a subclass
IsConnectionError(ret) ==
    ret \in {"EdgeRouterConnectionError", "EdgeRouterAuthenticationError"}

ApiOps == {"test_connection", "get_system_info", "get_arp_table",
           "get_dhcp_leases", "get_all_clients"}

Commands(op) ==
    IF op \in {"test_connection", "get_system_info"} THEN <<"show version">>
    ELSE IF op = "get_arp_table" THEN <<"show arp">>
    ELSE IF op = "get_dhcp_leases" THEN <<"show dhcp leases">>
    ELSE <<"show arp", "show dhcp leases">>

\* how a method goes on after one of its commands returned or raised ret,
\* with rest the commands it has not issued yet
api_after(op, ret, rest) ==
    IF op = "test_connection"
    THEN [done |-> TRUE, result |-> IF IsConnectionError(ret) THEN "False" ELSE "True"]
    ELSE IF op = "get_all_clients"
    THEN [done |-> rest = <<>>, result |-> "value"]
    ELSE [done |-> TRUE, result |-> IF IsConnectionError(ret) THEN ret ELSE "value"]

\* async_step_user after the method it awaited finished with result:
\* the next position and errors["base"]
async_step_user_after(pc, result) ==
    IF pc = "test"
    THEN IF result = "True" THEN [pc |-> "info", error |-> None]
         ELSE IF result = "False" THEN [pc |-> "form", error |-> "cannot_connect"]
         ELSE IF result = "EdgeRouterAuthenticationError"
              THEN [pc |-> "form", error |-> "invalid_auth"]
         ELSE [pc |-> "form", error |-> "cannot_connect"]
    ELSE IF result = "value" THEN [pc |-> "created", error |-> None]
         ELSE IF result = "EdgeRouterAuthenticationError"
              THEN [pc |-> "form", error |-> "invalid_auth"]
         ELSE [pc |-> "form", error |-> "cannot_connect"]

InitChannel ==
    /\ chan_pc = "idle"
    /\ open_sessions = 0
    /\ connected = FALSE
    /\ session_cmds = 0
    /\ closed_cmds = {}
    /\ chan_exc = None
    /\ chan_stderr = FALSE
    /\ chan_ret = "none"
    /\ api_op = "idle"
    /\ api_cmds = <<>>
    /\ api_ret = "none"
    /\ calls = 0
    /\ flow_pc = "idle"
    /\ flow_test_exc = None
    /\ flow_error = None

\* the state of a fresh invocation: client = paramiko.SSHClient()
NewInvocation ==
    /\ chan_pc' = "connect"
    /\ connected' = FALSE
    /\ session_cmds' = 0
    /\ chan_exc' = None
    /\ chan_stderr' = FALSE
    /\ chan_ret' = "none"

\* a caller starts one method of the API
ApiCall(op) ==
    /\ api_op = "idle" /\ flow_pc \in {"idle", "form", "created"}
    /\ calls < MaxCalls
    /\ calls' = calls + 1
    /\ api_op' = op
    /\ api_cmds' = Commands(op)
    /\ api_ret' = "none"
    /\ NewInvocation
    /\ UNCHANGED <<open_sessions, closed_cmds, flow_pc, flow_test_exc, flow_error>>
    /\ UNCHANGED <<core_vars, fetch_vars, aux_vars>>

\* the user submits the form: async_step_user runs api.test_connection
FlowSubmit ==
    /\ api_op = "idle" /\ flow_pc \in {"idle", "form"}
    /\ calls < MaxCalls
    /\ calls' = calls + 1
    /\ flow_pc' = "test"
    /\ flow_test_exc' = None
    /\ flow_error' = None
    /\ api_op' = "test_connection"
    /\ api_cmds' = Commands("test_connection")
    /\ api_ret' = "none"
    /\ NewInvocation
    /\ UNCHANGED <<open_sessions, closed_cmds>>
    /\ UNCHANGED <<core_vars, fetch_vars, aux_vars>>

\* client.connect(...)
ChanConnect ==
    /\ chan_pc = "connect"
    /\ \E outcome \in ConnectOutcomes :
         /\ open_sessions' = IF OpensSession(outcome) THEN open_sessions + 1
                             ELSE open_sessions
         /\ connected' = (outcome = "ok")
         /\ chan_exc' = IF outcome = "ok" THEN None ELSE outcome
         /\ chan_pc' = IF outcome = "ok" THEN "exec" ELSE "finally"
    /\ session_cmds' = 0
    /\ chan_stderr' = FALSE
    /\ UNCHANGED <<closed_cmds, chan_ret, api_op, api_cmds, api_ret, calls,
                   flow_pc, flow_test_exc, flow_error>>
    /\ UNCHANGED <<core_vars, fetch_vars, aux_vars>>

\* client.exec_command(wrapped_command, timeout=self.timeout)
ChanExec ==
    /\ chan_pc = "exec"
    /\ session_cmds' = session_cmds + 1
    /\ \E outcome \in ExecOutcomes :
         /\ chan_exc' = IF outcome = "ok" THEN None ELSE outcome
         /\ chan_pc' = IF outcome = "ok" THEN "read" ELSE "finally"
    /\ UNCHANGED <<open_sessions, connected, closed_cmds, chan_stderr, chan_ret,
                   api_op, api_cmds, api_ret, calls, flow_pc, flow_test_exc,
                   flow_error>>
    /\ UNCHANGED <<core_vars, fetch_vars, aux_vars>>

\* stdout.read() and stderr.read(); a nonempty stderr is only logged
ChanRead ==
    /\ chan_pc = "read"
    /\ \E outcome \in ReadOutcomes :
         /\ chan_exc' = IF outcome = "TimeoutError" THEN outcome ELSE None
         /\ chan_stderr' = (outcome = "stderr")
    /\ chan_pc' = "finally"
    /\ UNCHANGED <<open_sessions, connected, session_cmds, closed_cmds, chan_ret,
                   api_op, api_cmds, api_ret, calls, flow_pc, flow_test_exc,
                   flow_error>>
    /\ UNCHANGED <<core_vars, fetch_vars, aux_vars>>

\* the except clauses and finally of _exec_command, then the return into the
\* calling method and, when that method finishes, into async_step_user
ChanExit ==
    /\ chan_pc = "finally"
    /\ \E ret \in {exec_command_exit(chan_exc)} :
       \E after \in {api_after(api_op, ret, Tail(api_cmds))} :
         /\ chan_ret' = ret
         /\ open_sessions' = sessions_after_close(open_sessions, chan_exc)
         /\ closed_cmds' = IF connected THEN closed_cmds \cup {session_cmds}
                           ELSE closed_cmds
         /\ flow_test_exc' = IF flow_pc = "test" THEN chan_exc ELSE flow_test_exc
         /\ IF ~after.done
            THEN \* get_all_clients goes on to its second command
                 /\ api_cmds' = Tail(api_cmds)
                 /\ chan_pc' = "connect"
                 /\ UNCHANGED <<api_op, api_ret, flow_pc, flow_error>>
            ELSE /\ api_ret' = after.result
                 /\ IF flow_pc \in {"test", "info"}
                    THEN \E f \in {async_step_user_after(flow_pc, after.result)} :
                           /\ flow_pc' = f.pc
                           /\ flow_error' = f.error
                           /\ IF f.pc = "info"
                              THEN /\ api_op' = "get_system_info"
                                   /\ api_cmds' = Commands("get_system_info")
                                   /\ chan_pc' = "connect"
                              ELSE /\ api_op' = "idle"
                                   /\ api_cmds' = <<>>
                                   /\ chan_pc' = "idle"
                    ELSE /\ api_op' = "idle"
                         /\ api_cmds' = <<>>
                         /\ chan_pc' = "idle"
                         /\ UNCHANGED <<flow_pc, flow_error>>
    /\ UNCHANGED <<connected, session_cmds, chan_exc, chan_stderr, calls>>
    /\ UNCHANGED <<core_vars, fetch_vars, aux_vars>>

NextChannel ==
    \/ \E op \in ApiOps : ApiCall(op)
    \/ FlowSubmit
    \/ ChanConnect
    \/ ChanExec
    \/ ChanRead
    \/ ChanExit

\* ------------------------------------------------------------------------
\* get_all_clients pass by pass, run in the executor while the event loop
\* serves readers of coordinator.data
\* ------------------------------------------------------------------------
\* a variant in which the passes patch the cached registry itself
cache_patched_in_place(d, local) == local

\* coordinator.data while a call is running: the passes fill the local
\* mapping clients, the cache is not touched
cache_during_fetch(d, local) == d

InitFetch ==
    /\ fetch_pc = "idle"
    /\ fetch_clients = EmptyRegistry
    /\ fetch_now = NoTime
    /\ read_pc = "idle"

\* ------------------------------------------------------------------------
\* The parsers of get_arp_table and get_dhcp_leases
\* ------------------------------------------------------------------------
\* A line of command output is the sequence of its whitespace-separated
\* tokens, line.split(); the empty sequence is a blank line.  The tokens of
\* a heading are separated by one space where that matters ("IP address").
ArpLineCatalog ==
    { <<>>,
      <<"Address", "HWtype", "HWaddress", "Flags", "Mask", "Iface">>,
      <<"----------", "----------------">>,
      <<"192.168.1.50", "ether", "00:11:22:33:44:55", "C", "eth0">>,
      <<"192.168.1.51", "ether", "66-77-88-99-AA-BB", "C">>,
      <<"192.168.1.51", "(incomplete)", "on", "eth0">>,
      <<"192.168.1.50", "00:11:22:33:44:55", "eth0">> }

DhcpLineCatalog ==
    { <<>>,
      <<"IP", "address", "Hardware", "Address", "Lease", "expiration", "Pool",
        "Client", "Name">>,
      <<"----------", "----------------">>,
      <<"192.168.1.50", "00:11:22:33:44:55", "2024/01/01", "12:00:00", "LAN",
        "myhost">>,
      <<"192.168.1.51", "66-77-88-99-AA-BB", "2024/01/01", "12:00:00", "LAN",
        "?">>,
      <<"192.168.1.51", "66:77:88:99:aa:bb">> }

\* "Address" in line
ContainsAddress(line) == \E i \in 1..Len(line) : line[i] = "Address"

\* "---" in line
ContainsRule(line) ==
    \E i \in 1..Len(line) : line[i] \in {"----------", "----------------"}

\* "IP address" in line
ContainsIpAddress(line) ==
    \E i \in 1..(Len(line) - 1) : line[i] = "IP" /\ line[i + 1] = "address"

\* the match of mac_pattern in one token, after .lower().replace("-", ":")
MacOf(tok) ==
    CASE tok = "00:11:22:33:44:55" -> "00:11:22:33:44:55"
      [] tok = "00-11-22-33-44-55" -> "00:11:22:33:44:55"
      [] tok = "66:77:88:99:aa:bb" -> "66:77:88:99:aa:bb"
      [] tok = "66-77-88-99-AA-BB" -> "66:77:88:99:aa:bb"
      [] OTHER -> None

HasMac(line) == \E i \in 1..Len(line) : MacOf(line[i]) # None

\* re.search returns the leftmost match
MacIndex(line) ==
    CHOOSE i \in 1..Len(line) :
        /\ MacOf(line[i]) # None
        /\ \A j \in 1..(i - 1) : MacOf(line[j]) = None

\* what follows the match on the line, split
Remaining(line) == SubSeq(line, MacIndex(line) + 1, Len(line))

IsDate(tok) == tok = "2024/01/01"

\* remaining[date_match.start():date_match.start() + 19]: the date, one
\* space and the eight characters of the time
ExpiresIn(rem) ==
    IF \E i \in 1..Len(rem) : IsDate(rem[i])
    THEN LET i == CHOOSE k \in 1..Len(rem) :
                     IsDate(rem[k]) /\ \A j \in 1..(k - 1) : ~IsDate(rem[j])
         IN IF i < Len(rem) THEN rem[i] \o " " \o rem[i + 1] ELSE rem[i]
    ELSE None

\* a variant that takes the interface from the last token of every row
arp_entry_of_last_token(line) ==
    IF line = <<>> \/ ContainsAddress(line) \/ ContainsRule(line) THEN <<>>
    ELSE IF Len(line) >= 4 /\ HasMac(line)
         THEN << [ip |-> line[1], mac |-> MacOf(line[MacIndex(line)]),
                  interface |-> line[Len(line)]] >>
         ELSE <<>>

\* the body of the loop of get_arp_table: the entries one line appends
arp_entry_of(line) ==
    IF line = <<>> \/ ContainsAddress(line) \/ ContainsRule(line) THEN <<>>
    ELSE IF Len(line) >= 4 /\ HasMac(line)
         THEN << [ip |-> line[1], mac |-> MacOf(line[MacIndex(line)]),
                  interface |-> IF Len(line) > 4 THEN line[Len(line)] ELSE ""] >>
         ELSE <<>>

\* each returned row with the number of the line it came from
Numbered(rows, i) == [k \in 1..Len(rows) |-> [line |-> i, row |-> rows[k]]]

RECURSIVE ArpLinesFrom(_, _)
ArpLinesFrom(lines, i) ==
    IF i > Len(lines) THEN <<>>
    ELSE Numbered(arp_entry_of(lines[i]), i) \o ArpLinesFrom(lines, i + 1)

get_arp_table(lines) == ArpLinesFrom(lines, 1)

\* the lease one data line appends
dhcp_lease_of(line) ==
    IF Len(line) >= 3 /\ HasMac(line)
    THEN LET rem == Remaining(line)
         IN << [ip |-> line[1], mac |-> MacOf(line[MacIndex(line)]),
                hostname |-> IF Len(rem) >= 3 /\ rem[Len(rem)] # "?"
                             THEN rem[Len(rem)] ELSE None,
                expires |-> ExpiresIn(rem)] >>
    ELSE <<>>

\* the loop of get_dhcp_leases from line i on, with its flag in_data
RECURSIVE DhcpLinesFrom(_, _, _)
DhcpLinesFrom(lines, i, in_data) ==
    IF i > Len(lines) THEN <<>>
    ELSE IF lines[i] = <<>> THEN DhcpLinesFrom(lines, i + 1, in_data)
    ELSE IF ContainsIpAddress(lines[i]) \/ ContainsRule(lines[i])
         THEN DhcpLinesFrom(lines, i + 1, TRUE)
    ELSE IF ~in_data THEN DhcpLinesFrom(lines, i + 1, in_data)
    ELSE Numbered(dhcp_lease_of(lines[i]), i) \o DhcpLinesFrom(lines, i + 1, in_data)

\* a variant that starts with in_data set
get_dhcp_leases_no_preamble(lines) == DhcpLinesFrom(lines, 1, TRUE)

get_dhcp_leases(lines) == DhcpLinesFrom(lines, 1, FALSE)

InitParse ==
    /\ parse_cmd = "none"
    /\ output = <<>>
    /\ parsed = <<>>

\* ------------------------------------------------------------------------
\* Setting up the config entry and the device tracker platform
\* ------------------------------------------------------------------------
\* the keys async_setup_entry stores in hass.data[DOMAIN][entry.entry_id]
StoredKeys == {"coordinator", "api", "consider_home"}

\* the keys the tracker platform's async_setup_entry reads, in order
TrackerReads == <<"coordinator", "consider_home", "device_info">>

\* the tracker platform's async_setup_entry over the stored keys and the
\* coordinator's registry: a missing key raises KeyError at its lookup,
\* otherwise the first call of async_add_new_entities registers a tracker
\* for every MAC of the registry
tracker_setup_entry(keys, d) ==
    IF \A i \in 1..Len(TrackerReads) : TrackerReads[i] \in keys
    THEN [raises |-> None, registered |-> DOMAIN d]
    ELSE [raises |-> "KeyError", registered |-> {}]

InitSetup ==
    /\ setup_pc = "start"
    /\ hass_data = {}
    /\ setup_exc = None
    /\ setup_registered = {}

\* ------------------------------------------------------------------------
\* The listener of the tracker platform
\* ------------------------------------------------------------------------
\* a variant that does not consult tracked_macs
new_entities_all(d, tracked) == DOMAIN d

\* the MACs async_add_new_entities creates a tracker for
new_entities(d, tracked) == {m \in DOMAIN d : m \notin tracked}

\* ------------------------------------------------------------------------
\* Initial states
\* ------------------------------------------------------------------------
NotFetched == [status |-> "ok", rows |-> <<>>]

InitCommon ==
    /\ now = 0
    /\ refreshed = FALSE
    /\ arp_out = NotFetched
    /\ dhcp_out = NotFetched
    /\ attempted = <<>>
    /\ last_update_success = TRUE
    /\ data = EmptyRegistry
    /\ tracked_macs = {}
    /\ tracker_last_seen = [m \in {} |-> NoTime]
    /\ reported = [m \in {} |-> "none"]
    /\ arp_seen_at = [m \in MACs |-> NoTime]
    /\ entity_count = [m \in MACs |-> 0]
    /\ appeared = {}
    /\ InitChannel
    /\ InitFetch
    /\ InitParse
    /\ InitSetup

Init == InitCommon /\ consider_home \in GraceWindows

InitMerge == InitCommon /\ consider_home = DEFAULT_CONSIDER_HOME

\* the positive grace windows short enough to run out well within the
\* clock's range
InitLive ==
    InitCommon /\ consider_home \in {g \in GraceWindows : g > 0 /\ 2 * g < MaxTime}

\* ------------------------------------------------------------------------
\* Actions
\* ------------------------------------------------------------------------
\* The coordinator takes the outcome of a get_all_clients call whose local
\* now was t: it updates its cache, then calls the listeners:
\* async_add_new_entities creates a tracker for every untracked MAC of the
\* registry, every tracker handles the update and writes its state (which
\* evaluates is_connected).
Handover(call, arp, dhcp, t) ==
    \E upd \in {async_update_data(call)} :
    \E d \in {IF upd.update_failed THEN data ELSE upd.value} :
    \E fresh \in {new_entities(d, tracked_macs)} :
    \E tracked \in {tracked_macs \cup fresh} :
    \E ls0 \in {[m \in tracked |->
                  IF m \in tracked_macs
                  THEN handle_coordinator_update(d, m, tracker_last_seen[m])
                  ELSE d[m].last_seen]} :
    \E ev \in {[m \in tracked |-> is_connected(d, m, ls0[m], consider_home, now)]} :
       /\ arp_out' = arp
       /\ dhcp_out' = dhcp
       /\ attempted' = call.attempted
       /\ last_update_success' = ~upd.update_failed
       /\ data' = d
       /\ tracked_macs' = tracked
       /\ tracker_last_seen' = [m \in tracked |-> ev[m].last_seen]
       /\ reported' = [m \in tracked |-> StateOf(ev[m].value)]
       /\ arp_seen_at' = [m \in MACs |->
              IF ~upd.update_failed /\ m \in DOMAIN d /\ d[m].in_arp
              THEN t ELSE arp_seen_at[m]]
       /\ entity_count' = [m \in MACs |->
              entity_count[m] + IF m \in fresh THEN 1 ELSE 0]
       /\ appeared' = appeared \cup DOMAIN d
       /\ refreshed' = TRUE
       /\ UNCHANGED <<now, consider_home>>

\* One fetch cycle as a single step
Cycle(arp, dhcp) ==
    /\ fetch_pc = "idle"
    /\ Handover(get_all_clients(arp, dhcp, now), arp, dhcp, now)
    /\ UNCHANGED <<aux_vars, chan_vars, fetch_vars>>

\* async_config_entry_first_refresh and the platform setup that follows it
FirstRefresh ==
    /\ ~refreshed
    /\ \E arp \in ArpOutcomesPolled, dhcp \in DhcpOutcomesPolled : Cycle(arp, dhcp)

\* a scheduled refresh of the coordinator
Refresh ==
    /\ refreshed
    /\ \E arp \in ArpOutcomesPolled, dhcp \in DhcpOutcomesPolled : Cycle(arp, dhcp)

\* a state write of one tracker between refreshes
Evaluate(m) ==
    /\ m \in tracked_macs
    /\ LET ev == is_connected(data, m, tracker_last_seen[m], consider_home, now)
       IN /\ tracker_last_seen' = [tracker_last_seen EXCEPT ![m] = ev.last_seen]
          /\ reported' = [reported EXCEPT ![m] = StateOf(ev.value)]
    /\ read_pc' = fetch_pc
    /\ UNCHANGED <<now, consider_home, refreshed, arp_out, dhcp_out, attempted,
                   last_update_success, data, tracked_macs, arp_seen_at,
                   entity_count, appeared>>
    /\ UNCHANGED <<aux_vars, chan_vars, fetch_pc, fetch_clients, fetch_now>>

\* the clock advances; earlier evaluations are no longer current
Tick ==
    /\ now < MaxTime
    /\ now' = now + 1
    /\ reported' = [m \in tracked_macs |-> "none"]
    /\ UNCHANGED <<consider_home, refreshed, arp_out, dhcp_out, attempted,
                   last_update_success, data, tracked_macs, tracker_last_seen,
                   arp_seen_at, entity_count, appeared>>
    /\ UNCHANGED <<aux_vars, chan_vars, fetch_vars>>

\* clients = {}; now = datetime.now()
FetchStart ==
    /\ fetch_pc = "idle"
    /\ fetch_pc' = "arp"
    /\ fetch_clients' = EmptyRegistry
    /\ fetch_now' = now
    /\ UNCHANGED <<core_vars, chan_vars, aux_vars, read_pc>>

\* the first try block: get_arp_table and the ARP pass
FetchArp ==
    /\ fetch_pc = "arp"
    /\ \E arp \in ArpOutcomesPolled :
         /\ arp_out' = arp
         /\ fetch_clients' = IF Failed(arp) THEN fetch_clients
                             ELSE ArpLoop(fetch_clients, arp.rows, fetch_now)
    /\ data' = cache_during_fetch(data, fetch_clients')
    /\ fetch_pc' = "dhcp"
    /\ UNCHANGED <<now, consider_home, refreshed, dhcp_out, attempted,
                   last_update_success, tracked_macs, tracker_last_seen,
                   reported, arp_seen_at, entity_count, appeared>>
    /\ UNCHANGED <<aux_vars, chan_vars, fetch_now, read_pc>>

\* the second try block: get_dhcp_leases and the DHCP pass
FetchDhcp ==
    /\ fetch_pc = "dhcp"
    /\ \E dhcp \in DhcpOutcomesPolled :
         /\ dhcp_out' = dhcp
         /\ fetch_clients' = IF Failed(dhcp) THEN fetch_clients
                             ELSE DhcpLoop(fetch_clients, dhcp.rows, fetch_now)
    /\ data' = cache_during_fetch(data, fetch_clients')
    /\ fetch_pc' = "return"
    /\ UNCHANGED <<now, consider_home, refreshed, arp_out, attempted,
                   last_update_success, tracked_macs, tracker_last_seen,
                   reported, arp_seen_at, entity_count, appeared>>
    /\ UNCHANGED <<aux_vars, chan_vars, fetch_now, read_pc>>

\* return clients: the coordinator takes the mapping as its new data
FetchReturn ==
    /\ fetch_pc = "return"
    /\ Handover([raises |-> None, value |-> fetch_clients,
                 attempted |-> <<"show arp", "show dhcp leases">>],
                arp_out, dhcp_out, fetch_now)
    /\ fetch_pc' = "idle"
    /\ UNCHANGED <<aux_vars, chan_vars, fetch_clients, fetch_now, read_pc>>

\* get_arp_table on one output of "show arp"
GetArpTable ==
    /\ parse_cmd = "none"
    /\ \E lines \in SeqsUpTo(ArpLineCatalog, MaxLines) :
         /\ output' = lines
         /\ parsed' = get_arp_table(lines)
    /\ parse_cmd' = "show arp"
    /\ UNCHANGED <<core_vars, chan_vars, fetch_vars, setup_vars>>

\* get_dhcp_leases on one output of "show dhcp leases"
GetDhcpLeases ==
    /\ parse_cmd = "none"
    /\ \E lines \in SeqsUpTo(DhcpLineCatalog, MaxLines) :
         /\ output' = lines
         /\ parsed' = get_dhcp_leases(lines)
    /\ parse_cmd' = "show dhcp leases"
    /\ UNCHANGED <<core_vars, chan_vars, fetch_vars, setup_vars>>

NextParse ==
    \/ GetArpTable
    \/ GetDhcpLeases

\* async_config_entry_first_refresh of async_setup_entry: no listener is
\* registered yet; a failed first refresh ends the setup
SetupFirstRefresh ==
    /\ setup_pc = "start"
    /\ \E arp \in ArpOutcomesPolled, dhcp \in DhcpOutcomesPolled :
       \E call \in {get_all_clients(arp, dhcp, now)} :
       \E upd \in {async_update_data(call)} :
          /\ arp_out' = arp
          /\ dhcp_out' = dhcp
          /\ attempted' = call.attempted
          /\ last_update_success' = ~upd.update_failed
          /\ data' = IF upd.update_failed THEN data ELSE upd.value
          /\ arp_seen_at' = [m \in MACs |->
                 IF ~upd.update_failed /\ m \in DOMAIN upd.value
                    /\ upd.value[m].in_arp
                 THEN now ELSE arp_seen_at[m]]
          /\ setup_pc' = IF upd.update_failed THEN "not_ready" ELSE "refreshed"
    /\ refreshed' = TRUE
    /\ UNCHANGED <<now, consider_home, tracked_macs, tracker_last_seen, reported,
                   entity_count, appeared>>
    /\ UNCHANGED <<hass_data, setup_exc, setup_registered>>
    /\ UNCHANGED <<chan_vars, fetch_vars, parse_vars>>

\* hass.data[DOMAIN][entry.entry_id] = {...}
StoreEntryData ==
    /\ setup_pc = "refreshed"
    /\ hass_data' = StoredKeys
    /\ setup_pc' = "stored"
    /\ UNCHANGED <<setup_exc, setup_registered>>
    /\ UNCHANGED <<core_vars, chan_vars, fetch_vars, parse_vars>>

\* async_forward_entry_setups: the platforms' async_setup_entry are called
ForwardEntrySetups ==
    /\ setup_pc = "stored"
    /\ setup_pc' = "forwarded"
    /\ UNCHANGED <<hass_data, setup_exc, setup_registered>>
    /\ UNCHANGED <<core_vars, chan_vars, fetch_vars, parse_vars>>

\* async_setup_entry of the tracker platform
TrackerSetupEntry ==
    /\ setup_pc = "forwarded"
    /\ \E r \in {tracker_setup_entry(hass_data, data)} :
         /\ setup_exc' = r.raises
         /\ setup_registered' = r.registered
    /\ setup_pc' = "tracker_exit"
    /\ UNCHANGED hass_data
    /\ UNCHANGED <<core_vars, chan_vars, fetch_vars, parse_vars>>

NextSetup ==
    \/ SetupFirstRefresh
    \/ StoreEntryData
    \/ ForwardEntrySetups
    \/ TrackerSetupEntry

NextFetch ==
    \/ FetchStart
    \/ FetchArp
    \/ FetchDhcp
    \/ FetchReturn
    \/ \E m \in MACs : Evaluate(m)

Next ==
    \/ FirstRefresh
    \/ Refresh
    \/ \E m \in MACs : Evaluate(m)
    \/ Tick

Spec == Init /\ [][Next]_vars

\* the first refresh over every pair of fetch outcomes
FirstRefreshAny ==
    /\ ~refreshed
    /\ \E arp \in ArpOutcomes, dhcp \in DhcpOutcomes : Cycle(arp, dhcp)

NextMerge == FirstRefreshAny

SpecMerge == InitMerge /\ [][NextMerge]_vars

\* one get_all_clients call after another, pass by pass, with trackers
\* evaluating is_connected in between
SpecFetch == Init /\ [][NextFetch]_vars

\* the clock keeps advancing (up to MaxTime) and every tracker keeps being
\* evaluated
SpecLive ==
    /\ InitLive /\ [][Next]_vars
    /\ WF_vars(Tick)
    /\ \A m \in MACs : WF_vars(Evaluate(m))

\* calls of the API methods and runs of the config flow, command by command
SpecChannel == InitMerge /\ [][NextChannel]_vars

\* async_setup_entry of the integration followed by that of the tracker
\* platform
SpecSetup == Init /\ [][NextSetup]_vars

\* one call of either parser, over every output of up to MaxLines lines
SpecParse == InitMerge /\ [][NextParse]_vars

\* ------------------------------------------------------------------------
\* Properties
\* ------------------------------------------------------------------------
InArp(d, m) == m \in DOMAIN d /\ d[m].in_arp

LeaseOnly(d, m) == m \in DOMAIN d /\ ~d[m].in_arp /\ d[m].has_dhcp_lease

BothCommands == <<"show arp", "show dhcp leases">>

\* index of the first / last row of a MAC in a row list
FirstRow(rows, m) == CHOOSE i \in 1..Len(rows) :
    rows[i].mac = m /\ \A j \in 1..Len(rows) : rows[j].mac = m => i <= j

LastRow(rows, m) == CHOOSE i \in 1..Len(rows) :
    rows[i].mac = m /\ \A j \in 1..Len(rows) : rows[j].mac = m => j <= i

\* C1, as stated: after a snapshot of cycle T with in_arp for a client and
\* no later one, every evaluation at time t reports present exactly when
\* t - T < consider_home.
C1_PresentIffWithinWindow ==
    \A m \in tracked_macs :
        (arp_seen_at[m] # NoTime /\ reported[m] # "none")
        => (reported[m] = "home" <=> now - arp_seen_at[m] < consider_home)

\* C1, amended: the window decides only while the cached registry has no
\* in_arp record for the client; while the cached registry still has in_arp
\* for it, every evaluation reports present.
C1_GraceWindow ==
    \A m \in tracked_macs :
        (arp_seen_at[m] # NoTime /\ reported[m] # "none")
        => IF InArp(data, m)
           THEN reported[m] = "home"
           ELSE (reported[m] = "home" <=> now - arp_seen_at[m] < consider_home)

C1_Witness ==
    \E m \in tracked_macs :
        /\ consider_home = 6
        /\ arp_seen_at[m] = 0
        /\ ~InArp(data, m)
        /\ now = 6
        /\ reported[m] = "not_home"

\* C2: a client that never had in_arp in any snapshot is never reported
\* present.
C2_NeverInArpNeverPresent ==
    \A m \in tracked_macs : arp_seen_at[m] = NoTime => reported[m] # "home"

\* C3: a cycle is an update failure exactly when both fetches failed.
C3_UpdateFailedIffBothFail ==
    refreshed => (~last_update_success <=> (Failed(arp_out) /\ Failed(dhcp_out)))

\* C4: a cycle in which both fetches fail leaves the cached registry as it
\* was.
C4_CacheKeptWhenBothFail ==
    [][((FirstRefresh \/ Refresh) /\ Failed(arp_out') /\ Failed(dhcp_out'))
       => data' = data]_vars

\* C5: when exactly one fetch fails the call raises nothing, both commands
\* were issued and the registry holds exactly the records of the healthy
\* source.
C5_OneSourceFails ==
    (refreshed /\ Failed(arp_out) # Failed(dhcp_out))
    => /\ last_update_success
       /\ attempted = BothCommands
       /\ IF Failed(dhcp_out)
          THEN /\ DOMAIN data = MacsOf(arp_out.rows)
               /\ \A m \in DOMAIN data :
                    /\ data[m].in_arp /\ ~data[m].has_dhcp_lease
                    /\ data[m].ip = arp_out.rows[LastRow(arp_out.rows, m)].ip
                    /\ data[m].hostname = None /\ data[m].lease_expires = None
          ELSE /\ DOMAIN data = MacsOf(dhcp_out.rows)
               /\ \A m \in DOMAIN data :
                    /\ ~data[m].in_arp /\ data[m].has_dhcp_lease
                    /\ data[m].hostname = dhcp_out.rows[LastRow(dhcp_out.rows, m)].hostname
                    /\ data[m].interface = None

C5_Witness ==
    /\ refreshed
    /\ Failed(arp_out) /\ ~Failed(dhcp_out)
    /\ Cardinality(MacsOf(dhcp_out.rows)) = 2
    /\ Cardinality(DOMAIN data) = 2

\* C6: no record of the registry has neither flag.
C6_NoRecordWithoutSource ==
    \A m \in DOMAIN data : data[m].in_arp \/ data[m].has_dhcp_lease

C6_Witness ==
    /\ refreshed
    /\ \E m \in DOMAIN data : data[m].in_arp /\ ~data[m].has_dhcp_lease
    /\ \E m \in DOMAIN data : ~data[m].in_arp /\ data[m].has_dhcp_lease

\* C7: one record per distinct MAC of the two row lists, keyed by its own
\* mac, with in_arp / has_dhcp_lease telling which list the MAC occurs in.
C7_OneRecordPerMac ==
    refreshed
    => /\ DOMAIN data = MacsOf(arp_out.rows) \cup MacsOf(dhcp_out.rows)
       /\ \A m \in DOMAIN data :
            /\ data[m].mac = m
            /\ data[m].in_arp <=> m \in MacsOf(arp_out.rows)
            /\ data[m].has_dhcp_lease <=> m \in MacsOf(dhcp_out.rows)

C7_Witness ==
    /\ refreshed
    /\ Len(arp_out.rows) = 2
    /\ Cardinality(MacsOf(arp_out.rows)) = 1
    /\ MacsOf(arp_out.rows) \subseteq MacsOf(dhcp_out.rows)
    /\ Cardinality(DOMAIN data) = 2

\* C8: for a MAC in both lists, ip and interface are those of its ARP row
\* and hostname and lease_expires those of its lease row; the ip of a
\* record is that of a lease row only when the MAC has no ARP row.
C8_ArpIpWins ==
    refreshed
    => \A m \in DOMAIN data :
         /\ m \in MacsOf(arp_out.rows)
            => /\ data[m].ip = arp_out.rows[LastRow(arp_out.rows, m)].ip
               /\ data[m].interface = arp_out.rows[LastRow(arp_out.rows, m)].interface
         /\ m \in MacsOf(dhcp_out.rows)
            => /\ data[m].hostname = dhcp_out.rows[LastRow(dhcp_out.rows, m)].hostname
               /\ data[m].lease_expires = dhcp_out.rows[LastRow(dhcp_out.rows, m)].expires
         /\ m \notin MacsOf(arp_out.rows)
            => \E i \in 1..Len(dhcp_out.rows) :
                 dhcp_out.rows[i].mac = m /\ data[m].ip = dhcp_out.rows[i].ip

C8_Witness ==
    /\ refreshed
    /\ arp_out.rows = <<[ip |-> "192.168.1.50", mac |-> "00:11:22:33:44:55",
                         interface |-> ""]>>
    /\ dhcp_out.rows = <<[ip |-> "192.168.1.51", mac |-> "00:11:22:33:44:55",
                          hostname |-> "myhost", expires |-> None]>>
    /\ data["00:11:22:33:44:55"].ip = "192.168.1.50"
    /\ data["00:11:22:33:44:55"].hostname = "myhost"
    /\ data["00:11:22:33:44:55"].in_arp
    /\ data["00:11:22:33:44:55"].has_dhcp_lease

\* C9: the Connected Clients sensor is the number of in_arp records of the
\* cached registry; a lease-only record adds nothing to it and is counted
\* by the DHCP Leases sensor.
C9_ConnectedCountsArpOnly ==
    /\ connected_clients_native_value(data)
         = Cardinality({m \in DOMAIN data : data[m].in_arp})
    /\ connected_clients_native_value(data)
         <= Cardinality(DOMAIN data) - Cardinality({m \in MACs : LeaseOnly(data, m)})
    /\ dhcp_leases_native_value(data)
         >= Cardinality({m \in MACs : LeaseOnly(data, m)})
    /\ dhcp_leases_native_value(data)
         = Cardinality({m \in DOMAIN data : data[m].has_dhcp_lease})

C9_Witness ==
    /\ refreshed
    /\ \E m \in MACs : LeaseOnly(data, m)
    /\ connected_clients_native_value(data) = 1
    /\ dhcp_leases_native_value(data) = 1

\* C10: every record of the registry has a tracker whose connection type is
\* dhcp, static or dhcp_inactive as its two flags say.
C10_ConnectionType ==
    \A m \in DOMAIN data :
        /\ m \in tracked_macs
        /\ connection_type(data, m) \in {"dhcp", "static", "dhcp_inactive"}
        /\ connection_type(data, m) = "dhcp"
             <=> (data[m].in_arp /\ data[m].has_dhcp_lease)
        /\ connection_type(data, m) = "static"
             <=> (data[m].in_arp /\ ~data[m].has_dhcp_lease)
        /\ connection_type(data, m) = "dhcp_inactive"
             <=> (~data[m].in_arp /\ data[m].has_dhcp_lease)

C10_Witness ==
    /\ \E m \in tracked_macs : connection_type(data, m) = "static"
    /\ \E m \in tracked_macs : connection_type(data, m) = "dhcp_inactive"

\* C11: rejected credentials raise EdgeRouterAuthenticationError, SSH errors,
\* timeouts and network errors raise EdgeRouterConnectionError, and a command
\* that completes returns its output even when it wrote to standard error.
C11_ThreeOutcomeKinds ==
    (chan_pc \in {"idle", "connect"} /\ chan_ret # "none")
    => /\ chan_exc = "AuthenticationException"
            => chan_ret = "EdgeRouterAuthenticationError"
       /\ chan_exc \in {"SSHException", "TimeoutError", "OSError"}
            => chan_ret = "EdgeRouterConnectionError"
       /\ chan_exc = None => chan_ret = "output"
       /\ chan_stderr => chan_ret = "output"

C11_Witness ==
    /\ chan_pc = "idle"
    /\ chan_exc = "AuthenticationException"
    /\ chan_ret = "EdgeRouterAuthenticationError"
    /\ \E n \in closed_cmds : TRUE

C13_InvalidAuthShown ==
    flow_pc = "form"
    => /\ flow_test_exc = "AuthenticationException" => flow_error = "invalid_auth"
       /\ flow_test_exc \in {"SSHException", "TimeoutError", "OSError"}
            => flow_error = "cannot_connect"

\* C14: the registry readers see changes only when a get_all_clients call
\* returns, and then to the complete merge of that call's ARP and DHCP
\* passes; while a call is running the cache keeps the previous snapshot.
C14_WholeSnapshotSwap ==
    [][data' # data
       => /\ fetch_pc = "return"
          /\ data' = get_all_clients(arp_out, dhcp_out, fetch_now).value]_vars

C14_Witness ==
    /\ fetch_pc = "dhcp"
    /\ read_pc = "dhcp"
    /\ fetch_clients # data
    /\ \E m \in tracked_macs : InArp(fetch_clients, m) /\ reported[m] = "not_home"

\* C15: the _last_seen of an existing tracker changes only in a step after
\* which the cached registry has in_arp for its MAC, and then to the cycle
\* timestamp of that snapshot.
C15_LastSeenOnlyFromArp ==
    [][\A m \in tracked_macs :
          tracker_last_seen'[m] # tracker_last_seen[m]
          => /\ InArp(data', m)
             /\ tracker_last_seen'[m] = data'[m].last_seen
             /\ tracker_last_seen'[m] = arp_seen_at'[m]]_vars

C15_Witness ==
    \E m \in tracked_macs :
        /\ LeaseOnly(data, m)
        /\ arp_seen_at[m] # NoTime
        /\ tracker_last_seen[m] = arp_seen_at[m]
        /\ data[m].last_seen > tracker_last_seen[m]

\* what is_connected returns when evaluated in the current state
Present(m) ==
    is_connected(data, m, tracker_last_seen[m], consider_home, now).value

\* the time from which a client without a new ARP sighting is due absent
Deadline(m) ==
    (IF arp_seen_at[m] # NoTime THEN arp_seen_at[m] ELSE tracker_last_seen[m])
    + consider_home

\* C16: a tracked client whose window ends within the clock's range is
\* eventually reported absent unless the cache gets in_arp for it again, and
\* a tracker that reports absent reports present again only in a step that
\* brings a snapshot with in_arp for it.
C16_EventuallyAbsent ==
    /\ \A m \in MACs :
         (m \in tracked_macs /\ ~InArp(data, m) /\ Deadline(m) <= MaxTime)
         ~> (InArp(data, m)
             \/ (m \in tracked_macs /\ reported[m] = "not_home"
                 /\ now >= Deadline(m)))
    /\ [][\A m \in tracked_macs :
            (~Present(m) /\ Present(m)')
            => (InArp(data', m) /\ arp_seen_at'[m] = now')]_vars

C16_Witness ==
    \E m \in tracked_macs :
        /\ arp_seen_at[m] = NoTime
        /\ consider_home = 2
        /\ now = Deadline(m)
        /\ reported[m] = "not_home"

\* a line the ARP parser is to turn into a row: not blank, not a heading,
\* not a dashed separator, and holding a MAC
ArpDataLine(line) ==
    line # <<>> /\ ~ContainsAddress(line) /\ ~ContainsRule(line) /\ HasMac(line)

ArpDataLineOfFour(line) == ArpDataLine(line) /\ Len(line) >= 4

\* the row described for one such line
ArpRowFor(line) ==
    [ip |-> line[1], mac |-> MacOf(line[MacIndex(line)]),
     interface |-> IF Len(line) > 4 THEN line[Len(line)] ELSE ""]

\* the parsed rows are, in order, the rows described for the lines sel
RowsAre(sel) ==
    /\ Len(parsed) = Len(sel)
    /\ \A k \in 1..Len(parsed) :
         /\ parsed[k].row = ArpRowFor(sel[k])
         /\ parsed[k].row.mac \in MACs
         /\ output[parsed[k].line] = sel[k]
         /\ \A j \in 1..(k - 1) : parsed[j].line < parsed[k].line

\* C17 as claimed: the DHCP lease parser emits a row only for a line that
\* comes after a line containing "IP address"; without such a line it emits
\* no row.
C17_RowsOnlyAfterIpAddressHeading ==
    parse_cmd = "show dhcp leases"
    => \A k \in 1..Len(parsed) :
          \E h \in 1..(parsed[k].line - 1) : ContainsIpAddress(output[h])

\* C17 amended: the DHCP lease parser emits a row only for a line that comes
\* after a line containing "IP address" or "---"; every line before the
\* first such line is discarded and an output with no such line yields no
\* row.
C17_RowsOnlyAfterMarker ==
    parse_cmd = "show dhcp leases"
    => \A k \in 1..Len(parsed) :
          \E h \in 1..(parsed[k].line - 1) :
             ContainsIpAddress(output[h]) \/ ContainsRule(output[h])

\* a lease line in the preamble was discarded and a later one gave a row
C17_Witness ==
    /\ parse_cmd = "show dhcp leases"
    /\ Len(parsed) = 1
    /\ Len(output) = 3
    /\ Len(output[1]) >= 3 /\ HasMac(output[1])
    /\ ContainsIpAddress(output[2])
    /\ parsed[1].line = 3

\* C18 as claimed: the ARP parser returns, in input order, exactly one row
\* for every line that is not blank, not a heading, not a dashed separator
\* and holds a MAC, and nothing for any other line; the row has the line's
\* first token as ip, the MAC in lowercase with colons, and as interface the
\* last token when the line has more than four tokens, "" otherwise.
C18_ArpRowPerMacLine ==
    parse_cmd = "show arp" => RowsAre(SelectSeq(output, ArpDataLine))

\* C18 amended: the same, for the lines that in addition have at least four
\* tokens; a line with fewer than four tokens gives no row even when it
\* holds a MAC.
C18_ArpRowPerMacLineOfFour ==
    parse_cmd = "show arp" => RowsAre(SelectSeq(output, ArpDataLineOfFour))

\* a row with an interface, a row of four tokens with a hyphenated uppercase
\* MAC, and a line of three tokens holding a MAC that gave no row
C18_Witness ==
    /\ parse_cmd = "show arp"
    /\ Len(output) = 3
    /\ Len(parsed) = 2
    /\ parsed[1].row.interface = "eth0"
    /\ parsed[2].row.interface = ""
    /\ parsed[2].row.mac = "66:77:88:99:aa:bb"
    /\ \E i \in 1..Len(output) : ArpDataLine(output[i]) /\ Len(output[i]) < 4

\* C19: every key the tracker platform setup reads was stored by
\* async_setup_entry before it forwarded to the platforms, and the tracker
\* setup ends having registered a tracker for every MAC of the registry.
C19_TrackerSetupReadsStoredKeys ==
    /\ setup_pc \in {"stored", "forwarded", "tracker_exit"}
       => \A i \in 1..Len(TrackerReads) : TrackerReads[i] \in hass_data
    /\ setup_pc = "tracker_exit"
       => (setup_exc = None /\ setup_registered = DOMAIN data)

C21_LeaseOnlyFromLastRow ==
    refreshed
    => \A m \in DOMAIN data :
         (m \notin MacsOf(arp_out.rows) /\ m \in MacsOf(dhcp_out.rows))
         => LET last == dhcp_out.rows[LastRow(dhcp_out.rows, m)]
            IN /\ data[m].ip = last.ip
               /\ data[m].hostname = last.hostname
               /\ data[m].lease_expires = last.expires

====
